---- MODULE Spec2Model ----
(***************************************************************************)
(* Model of custom_components/yandex_weather/weather.py: the YandexWeather *)
(* entity (restore on async_added_to_hass, _handle_coordinator_update,     *)
(* update_condition_and_fire_event and the twice-daily forecast query).    *)
(*                                                                         *)
(* Python values are modelled as follows.                                  *)
(*   - an optional value is a sequence of length <= 1: None is <<>> and a  *)
(*     value v is <<v>>;                                                   *)
(*   - a dict is a function from its keys (strings) to optional values;    *)
(*     dict.get(k) is Get(d, k);                                           *)
(*   - a list is an object on the heap: a dict or an attribute holds a     *)
(*     reference (a heap address) and heap[address] is the list's content, *)
(*     so that two names bound to one list see each other's insertions.    *)
(***************************************************************************)
EXTENDS Integers, Sequences, FiniteSets, TLC

\* ----------------------------------------------------------------- bounds
MaxForecast == 3    \* longest forecast list the updater delivers
MaxTime == 3        \* timestamps (now, last_updated) range over 0..MaxTime
MaxInterval == 2    \* coordinator.update_interval ranges over 1..MaxInterval

\* ----------------------------------------------------------- Python values
None == <<>>
Some(v) == <<v>>
Get(d, k) == IF k \in DOMAIN d THEN d[k] ELSE None

\* dict d with d[k] = v (k added when absent)
Put(d, k, v) == [x \in DOMAIN d \cup {k} |-> IF x = k THEN v ELSE d[x]]

\* dict d restricted to the keys in ks
Restrict(d, ks) == [x \in DOMAIN d \cap ks |-> d[x]]

EmptyDict == [x \in {} |-> None]

\* ------------------------------------------------------------ constants
STATE_UNAVAILABLE == "unavailable"
ATTR_FORECAST_DATA == "forecast"
DOMAIN_EVENT == "yandex_weather_event"

\* conditions the updater can report; TRIGGERS are the tracked ones
CONDITIONS == {"sunny", "rainy", "fog"}
TRIGGERS == {"sunny", "rainy"}

\* native units of the entity (class attributes) and the other unit system
NativeUnit ==
    [temperature |-> "C", pressure |-> "hPa", wind_speed |-> "m/s",
     precipitation |-> "mm"]
OtherUnit ==
    [temperature |-> "F", pressure |-> "mmHg", wind_speed |-> "km/h",
     precipitation |-> "in"]

\* heap addresses of the lists the entity can be bound to
\*   "data"  the list stored in coordinator.data[ATTR_FORECAST_DATA]
\*   "state" the list stored in state.attributes[ATTR_FORECAST_DATA]
\*   "own"   the fresh list [] that .get(ATTR_FORECAST_DATA, []) creates
Addresses == {"data", "state", "own"}

\* ------------------------------------------------------ unit conversion
\* UNIT_CONVERSIONS[...] of the host platform, on integers.  The only target
\* unit the entity uses is its native one.
ToNative(attribute, v) ==
    CASE attribute = "temperature" -> ((v - 32) * 5) \div 9
      [] attribute = "pressure" -> (v * 4) \div 3
      [] attribute = "wind_speed" -> (v * 5) \div 18
      [] attribute = "precipitation" -> (v * 254) \div 10

\* the converter raises TypeError on a value that is not a number
RaisesTypeError(value) == value = None

converter(attribute, value, from_unit, to_unit) ==
    IF from_unit = to_unit THEN value ELSE Some(ToNative(attribute, value[1]))

\* try: target = converter(value, from_unit, to_unit)
\* except TypeError: pass          (old is what target held before)
TryConvert(old, attribute, value, from_unit, to_unit) ==
    IF RaisesTypeError(value)
    THEN old
    ELSE converter(attribute, value, from_unit, to_unit)

\* ----------------------------------------------------- image selection
get_image(image_source, condition, is_day, image) ==
    IF image_source = "HomeAssistant" THEN None ELSE image

\* ------------------------------------------------- the updater's data
\* the i-th entry of a forecast list the updater delivers
DeliveredEntry(i) ==
    [datetime |-> Some(100 + i), condition |-> Some("fog"),
     native_temperature |-> Some(10 + i), native_pressure |-> Some(1000 + i)]

DeliveredForecast(n) == [i \in 1..n |-> DeliveredEntry(i)]

\* measurements of one fetch: nothing, everything, or some of the fields
Measurements(p) ==
    CASE p = 0 -> EmptyDict
      [] p = 1 ->
           [original_condition |-> Some("clear"), daytime |-> Some("d"),
            image |-> Some("skc_d"), weather_time |-> Some(7),
            humidity |-> Some(50), pressure |-> Some(1000),
            temperature |-> Some(20), wind_speed |-> Some(5),
            wind_bearing |-> Some(90), feels_like |-> Some(18),
            wind_gust |-> Some(9), yandex_condition |-> Some("clear"),
            forecast_icons |-> Some("icons"), temp_water |-> Some(15)]
      [] p = 2 ->
           [original_condition |-> Some("overcast"), daytime |-> Some("n"),
            image |-> Some("ovc"), weather_time |-> Some(8),
            humidity |-> Some(80), temperature |-> Some(-3),
            wind_bearing |-> Some(180), wind_gust |-> Some(4),
            forecast_icons |-> None]

Profiles == 0..2

\* coordinator.data: the measurements, the condition when the fetch has one
\* and a reference to the forecast list when the fetch has one
MkData(c, p, has_forecast) ==
    LET d1 == IF c = None THEN Measurements(p)
              ELSE Put(Measurements(p), "condition", c)
    IN  IF has_forecast THEN Put(d1, ATTR_FORECAST_DATA, Some("data")) ELSE d1

OptConditions == {None} \cup {Some(c) : c \in CONDITIONS}

\* a fetch: the data dict and the content of its forecast list
Fetches ==
    {[data |-> MkData(c, p, FALSE), forecast |-> <<>>] :
        c \in OptConditions, p \in Profiles}
    \cup
    {[data |-> MkData(c, p, TRUE), forecast |-> DeliveredForecast(n)] :
        c \in OptConditions, p \in Profiles, n \in 0..MaxForecast}

\* what the coordinator holds when the entity is constructed
InitialFetches ==
    {[data |-> MkData(Some("fog"), 1, FALSE), forecast |-> <<>>],
     [data |-> MkData(Some("sunny"), 2, TRUE), forecast |-> DeliveredForecast(1)]}

\* --------------------------------------------------- restore snapshots
ConvertedKeys == {"temperature", "pressure", "wind_speed"}
UnitKeys == {"_temperature_unit", "_pressure_unit", "_wind_speed_unit"}
PlainKeys == {"humidity", "wind_bearing", "entity_picture"}
ExtraKeys ==
    {"feels_like", "wind_gust", "yandex_condition", "temp_water",
     "forecast_icons"}

\* the attributes a stored state can carry
FullAttributes ==
    [temperature |-> Some(68), pressure |-> Some(750), wind_speed |-> Some(18),
     _temperature_unit |-> Some(OtherUnit.temperature),
     _pressure_unit |-> Some(OtherUnit.pressure),
     _wind_speed_unit |-> Some(OtherUnit.wind_speed),
     humidity |-> Some(60), wind_bearing |-> Some(270),
     entity_picture |-> Some("bkn_d"),
     feels_like |-> Some(17), wind_gust |-> Some(11),
     yandex_condition |-> Some("cloudy"), temp_water |-> Some(12),
     forecast_icons |-> Some("stored_icons"),
     forecast |-> Some("state")]

\* a stored state whose attributes are `keys`, those in `nulls` holding None
MkSnapshot(state, keys, nulls, last_updated) ==
    [state |-> state,
     attributes |->
        [k \in keys |-> IF k \in nulls THEN None ELSE FullAttributes[k]],
     last_updated |-> last_updated]

\* the i-th entry of a stored forecast list; some entries lack some fields
StoredEntryKeys(i) ==
    {"datetime", "temperature", "pressure", "wind_speed", "precipitation"}
    \ (CASE i % 3 = 1 -> {"temperature"}
         [] i % 3 = 2 -> {}
         [] OTHER -> {"pressure", "precipitation"})

StoredEntry(i) ==
    Restrict([datetime |-> Some(200 + i), temperature |-> Some(50 + 9 * i),
              pressure |-> Some(750 + 3 * i), wind_speed |-> Some(18 * i),
              precipitation |-> Some(i)],
             StoredEntryKeys(i))

StoredForecast(n) == [i \in 1..n |-> StoredEntry(i)]

\* what async_get_last_state() returns, with the content of the forecast list
\* of its attributes: no state at all, or a state
NoSnapshot == [last_state |-> None, forecast |-> <<>>]

SnapshotsOver(states, keysets, nullsets, times, lengths) ==
    {[last_state |-> Some(MkSnapshot(st, ks, ns, t)), forecast |-> <<>>] :
        st \in states, ks \in keysets, ns \in nullsets, t \in times}
    \cup
    {[last_state |->
          Some(MkSnapshot(st, ks \cup {ATTR_FORECAST_DATA}, ns, t)),
      forecast |-> StoredForecast(n)] :
        st \in states, ks \in keysets, ns \in nullsets, t \in times,
        n \in lengths}

AllKeys == ConvertedKeys \cup UnitKeys \cup PlainKeys \cup ExtraKeys

\* ---------------------------------------------------------------- state
VARIABLES
    self,         \* the YandexWeather entity's attributes
    coordinator,  \* the WeatherUpdater: data, update_interval, calls received
    last_state,   \* what async_get_last_state() returns to async_added_to_hass,
                  \* None once async_added_to_hass is over
    heap,         \* the content of the list at every address
    clock,        \* datetime.now(timezone.utc) when the entity is added
    pc,           \* how far async_added_to_hass has got
    last_op,      \* the handler that ran last
    bus,          \* the events the last handler fired on hass.bus
    delivered,    \* the forecast list as the last coordinator update got it
    written,      \* async_write_ha_state calls of the last handler
    returned      \* what the last async_forecast_twice_daily returned

vars ==
    <<self, coordinator, last_state, heap, clock, pc, last_op, bus, delivered,
      written, returned>>

\* YandexWeather.__init__, over the class defaults of the host's entity
NewEntity(display_unit) ==
    [hass |-> Some("hass"),
     attr_available |-> TRUE,
     attr_condition |-> None,
     attr_native_temperature |-> None,
     attr_native_pressure |-> None,
     attr_native_wind_speed |-> None,
     attr_humidity |-> None,
     attr_wind_bearing |-> None,
     attr_entity_picture |-> None,
     attr_extra_state_attributes |-> EmptyDict,
     twice_daily_forecast |-> None,
     image_source |-> "Yandex",
     display_unit |-> display_unit]

InitOver(snapshots, times, intervals, fetches, display_units) ==
    \E sn \in snapshots, iv \in intervals, f \in fetches, du \in display_units :
        /\ self = NewEntity(du)
        /\ clock \in times
        /\ delivered = <<>>
        /\ coordinator =
               [data |-> f.data, update_interval |-> iv,
                first_refresh_calls |-> 0, schedule_refresh_calls |-> <<>>]
        /\ last_state = sn.last_state
        /\ heap = [a \in Addresses |->
                      CASE a = "data" -> f.forecast
                        [] a = "state" -> sn.forecast
                        [] OTHER -> <<>>]
        /\ pc = "constructed"
        /\ last_op = "__init__"
        /\ bus = <<>>
        /\ written = 0
        /\ returned = <<>>

\* ------------------------------------------------------------ operations
MinForecastLength == 3

\* mutant: the event is fired on every change, tracked or not
update_condition_and_fire_event_untracked(s, new_condition) ==
    [self |-> [s EXCEPT !.attr_condition = new_condition],
     fired |->
        IF new_condition # s.attr_condition /\ s.hass # None
        THEN <<[event_type |-> DOMAIN_EVENT, device_id |-> "device_id",
                type |-> new_condition]>>
        ELSE <<>>]

\* update_condition_and_fire_event: the entity afterwards and the events fired
update_condition_and_fire_event(s, new_condition) ==
    [self |-> [s EXCEPT !.attr_condition = new_condition],
     fired |->
        IF /\ new_condition # s.attr_condition
           /\ s.hass # None
           /\ new_condition # None
           /\ new_condition[1] \in TRIGGERS
        THEN <<[event_type |-> DOMAIN_EVENT, device_id |-> "device_id",
                type |-> new_condition]>>
        ELSE <<>>]

\* the Forecast(...) built from the entity's current conditions
CurrentWeatherForecast(s, data) ==
    [datetime |-> Get(data, "weather_time"),
     wind_bearing |-> s.attr_wind_bearing,
     native_temperature |-> s.attr_native_temperature,
     temperatrue |-> s.attr_native_temperature,
     native_templow |-> s.attr_native_temperature,
     templow |-> s.attr_native_temperature,
     native_pressure |-> s.attr_native_pressure,
     native_wind_speed |-> s.attr_native_wind_speed,
     condition |-> s.attr_condition]

\* mutant: the current weather is appended instead of inserted at index 0
forecast_twice_daily_append(s, data, h) ==
    LET a == s.twice_daily_forecast[1]
    IN  IF Len(h[a]) < MinForecastLength
        THEN [h EXCEPT ![a] = Append(h[a], CurrentWeatherForecast(s, data))]
        ELSE h

\* __forecast_twice_daily: the heap afterwards; the list it returns is the one
\* at the entity's address, result.insert(0, ...) having changed it in place
forecast_twice_daily(s, data, h) ==
    LET a == s.twice_daily_forecast[1]
    IN  IF Len(h[a]) < MinForecastLength
        THEN [h EXCEPT ![a] = <<CurrentWeatherForecast(s, data)>> \o h[a]]
        ELSE h

\* x.get(ATTR_FORECAST_DATA, []): the address of the list and the heap, a
\* fresh empty list being allocated when the key is absent
GetForecastList(d, h) ==
    IF ATTR_FORECAST_DATA \in DOMAIN d
    THEN [address |-> d[ATTR_FORECAST_DATA][1], heap |-> h]
    ELSE [address |-> "own", heap |-> [h EXCEPT !["own"] = <<>>]]

\* mutant: the wind speed is read from the wind bearing's field
MirrorMeasurements_swapped(s, data) ==
    [s EXCEPT
       !.attr_humidity = Get(data, "humidity"),
       !.attr_native_pressure = Get(data, "pressure"),
       !.attr_native_temperature = Get(data, "temperature"),
       !.attr_native_wind_speed = Get(data, "wind_bearing"),
       !.attr_wind_bearing = Get(data, "wind_bearing")]

\* the measurements _handle_coordinator_update copies from coordinator.data
MirrorMeasurements(s, data) ==
    [s EXCEPT
       !.attr_humidity = Get(data, "humidity"),
       !.attr_native_pressure = Get(data, "pressure"),
       !.attr_native_temperature = Get(data, "temperature"),
       !.attr_native_wind_speed = Get(data, "wind_speed"),
       !.attr_wind_bearing = Get(data, "wind_bearing")]

\* _handle_coordinator_update: entity and heap afterwards, events fired
handle_coordinator_update(s, data, h) ==
    LET s1 == [s EXCEPT !.attr_available = TRUE]
        r2 == update_condition_and_fire_event(s1, Get(data, "condition"))
        s3 == [r2.self EXCEPT !.attr_entity_picture =
                  get_image(s.image_source, Get(data, "original_condition"),
                            Get(data, "daytime") = Some("d"),
                            Get(data, "image"))]
        l4 == GetForecastList(data, h)
        s4 == [s3 EXCEPT !.twice_daily_forecast = Some(l4.address)]
        s5 == MirrorMeasurements(s4, data)
        h6 == forecast_twice_daily(s5, data, l4.heap)
        s6 == [s5 EXCEPT !.attr_extra_state_attributes =
                 [feels_like |-> Get(data, "feels_like"),
                  wind_gust |-> Get(data, "wind_gust"),
                  yandex_condition |-> Get(data, "yandex_condition"),
                  forecast_icons |-> Get(data, "forecast_icons"),
                  forecast |-> s5.twice_daily_forecast,
                  temp_water |-> Get(data, "temp_water")]]
    IN  [self |-> s6, heap |-> h6, fired |-> r2.fired]

\* the first loop of the restore: one native measurement of the entity
RestoreNative(attributes, attribute, old) ==
    TryConvert(old, attribute, Get(attributes, attribute),
               IF ("_" \o attribute \o "_unit") \in DOMAIN attributes
               THEN attributes["_" \o attribute \o "_unit"][1]
               ELSE NativeUnit[attribute],
               NativeUnit[attribute])

\* the second loop of the restore, for one entry and one of its fields
RestoreEntryField(s, f, attribute) ==
    IF RaisesTypeError(Get(f, attribute))
    THEN f
    ELSE Put(f, attribute,
             converter(attribute, Get(f, attribute),
                       s.display_unit[attribute], NativeUnit[attribute]))

\* mutant: one try around the loop, so that a TypeError ends the entry
RestoreEntry_abort(s, f) ==
    IF \E a \in {"temperature", "pressure", "wind_speed", "precipitation"} :
           RaisesTypeError(Get(f, a))
    THEN f
    ELSE RestoreEntryField(s,
             RestoreEntryField(s,
                 RestoreEntryField(s,
                     RestoreEntryField(s, f, "temperature"),
                     "pressure"),
                 "wind_speed"),
             "precipitation")

RestoreEntry(s, f) ==
    RestoreEntryField(s,
        RestoreEntryField(s,
            RestoreEntryField(s,
                RestoreEntryField(s, f, "temperature"),
                "pressure"),
            "wind_speed"),
        "precipitation")

\* mutant: the stored extra attributes are copied, None or not
RestoreExtra_unfiltered(attributes) ==
    Restrict(attributes, ExtraKeys)

\* the extra attributes of the restore: those the stored state has a value for
RestoreExtra(attributes) ==
    Restrict(attributes, {k \in ExtraKeys : Get(attributes, k) # None})

\* the else branch of async_added_to_hass up to the refresh decision
restore(s, state, h) ==
    LET at == state.attributes
        s1 == [s EXCEPT
                 !.attr_available = TRUE,
                 !.attr_condition = Some(state.state),
                 !.attr_native_temperature =
                     RestoreNative(at, "temperature", @),
                 !.attr_native_pressure = RestoreNative(at, "pressure", @),
                 !.attr_native_wind_speed =
                     RestoreNative(at, "wind_speed", @),
                 !.attr_humidity = Get(at, "humidity"),
                 !.attr_wind_bearing = Get(at, "wind_bearing"),
                 !.attr_entity_picture = Get(at, "entity_picture")]
        l2 == GetForecastList(at, h)
        a == l2.address
        h3 == [l2.heap EXCEPT
                 ![a] = [i \in 1..Len(@) |-> RestoreEntry(s1, @[i])]]
    IN  [self |-> [s1 EXCEPT
                     !.twice_daily_forecast = Some(a),
                     !.attr_extra_state_attributes = RestoreExtra(at)],
         heap |-> h3]

\* --------------------------------------------------------------- actions
\* the heap once _handle_coordinator_update has rebound the entity's list:
\* the lists nothing refers to any more are gone
Collect(s, data, h) ==
    [a \in Addresses |->
        IF \/ s.twice_daily_forecast = Some(a)
           \/ Get(data, ATTR_FORECAST_DATA) = Some(a)
        THEN h[a]
        ELSE <<>>]

\* mutant: the comparison is not strict
RefreshIsDue_inclusive(since_last_update, update_interval) ==
    since_last_update >= update_interval

\* since_last_update > self.coordinator.update_interval
RefreshIsDue(since_last_update, update_interval) ==
    since_last_update > update_interval

\* mutant: the operands are swapped
RefreshOffset_swapped(since_last_update, update_interval) ==
    since_last_update - update_interval

\* offset=self.coordinator.update_interval - since_last_update
RefreshOffset(since_last_update, update_interval) ==
    update_interval - since_last_update

\* coordinator.async_config_entry_first_refresh() is called and awaited
CallFirstRefresh(c) ==
    [c EXCEPT !.first_refresh_calls = @ + 1]

\* coordinator.schedule_refresh(offset=...)
CallScheduleRefresh(c, offset) ==
    [c EXCEPT !.schedule_refresh_calls = Append(@, offset)]

\* async_added_to_hass, up to its first await of the coordinator or, when it
\* schedules a refresh, to its end
AddedToHass ==
    /\ pc = "constructed"
    /\ delivered' = <<>>
    /\ UNCHANGED clock
    /\ last_op' = "async_added_to_hass"
    /\ bus' = <<>>
    /\ returned' = <<>>
    /\ IF last_state = None
       THEN /\ coordinator' = CallFirstRefresh(coordinator)
            /\ pc' = "first_refresh_return"
            /\ written' = 0
            /\ UNCHANGED <<self, heap, last_state>>
       ELSE LET state == last_state[1] IN
            IF state.state = STATE_UNAVAILABLE
            THEN /\ self' = [self EXCEPT !.attr_available = FALSE]
                 /\ coordinator' = CallFirstRefresh(coordinator)
                 /\ pc' = "first_refresh"
                 /\ written' = 0
                 /\ UNCHANGED <<heap, last_state>>
            ELSE LET r == restore(self, state, heap)
                     since_last_update == clock - state.last_updated
                 IN  /\ self' = r.self
                     /\ heap' = r.heap
                     /\ IF RefreshIsDue(since_last_update,
                                        coordinator.update_interval)
                        THEN /\ coordinator' = CallFirstRefresh(coordinator)
                             /\ pc' = "first_refresh"
                             /\ written' = 0
                             /\ UNCHANGED last_state
                        ELSE /\ coordinator' =
                                   CallScheduleRefresh(coordinator,
                                       RefreshOffset(since_last_update,
                                           coordinator.update_interval))
                             /\ pc' = "added"
                             /\ written' = 1
                             /\ last_state' = None

\* the coordinator takes fetch f as its data and calls its listener
Deliver(f) ==
    LET r == handle_coordinator_update(
                 self, f.data, [heap EXCEPT !["data"] = f.forecast])
    IN  /\ coordinator' = [coordinator EXCEPT !.data = f.data]
        /\ self' = r.self
        /\ heap' = Collect(r.self, f.data, r.heap)
        /\ bus' = r.fired
        /\ delivered' = f.forecast
        /\ UNCHANGED clock

\* the awaited first refresh succeeds with fetch f; async_added_to_hass
\* returns (no stored state) or runs on to its async_write_ha_state
FirstRefresh(f) ==
    /\ pc \in {"first_refresh", "first_refresh_return"}
    /\ Deliver(f)
    /\ pc' = "added"
    /\ last_op' = "first_refresh"
    /\ written' = IF pc = "first_refresh_return" THEN 1 ELSE 2
    /\ returned' = <<>>
    /\ last_state' = None

\* the awaited first refresh raises: async_added_to_hass does not complete
FirstRefreshFails ==
    /\ pc \in {"first_refresh", "first_refresh_return"}
    /\ pc' = "not_ready"
    /\ last_op' = "first_refresh_failed"
    /\ bus' = <<>>
    /\ written' = 0
    /\ returned' = <<>>
    /\ delivered' = <<>>
    /\ UNCHANGED <<self, coordinator, last_state, heap, clock>>

\* a later refresh of the coordinator brings fetch f
CoordinatorRefresh(f) ==
    /\ pc = "added"
    /\ Deliver(f)
    /\ last_op' = "refresh"
    /\ written' = 1
    /\ returned' = <<>>
    /\ UNCHANGED <<last_state, pc>>

\* the coordinator calls its listeners again, its data unchanged
CoordinatorNotify ==
    /\ pc = "added"
    /\ LET r == handle_coordinator_update(self, coordinator.data, heap)
       IN  /\ self' = r.self
           /\ heap' = Collect(r.self, coordinator.data, r.heap)
           /\ bus' = r.fired
    /\ delivered' = IF ATTR_FORECAST_DATA \in DOMAIN coordinator.data
                    THEN heap["data"]
                    ELSE <<>>
    /\ last_op' = "notify"
    /\ written' = 1
    /\ returned' = <<>>
    /\ UNCHANGED <<coordinator, last_state, pc, clock>>

\* async_forecast_twice_daily
ForecastQuery ==
    /\ pc = "added"
    /\ self.twice_daily_forecast # None
    /\ heap' = forecast_twice_daily(self, coordinator.data, heap)
    /\ returned' = heap'[self.twice_daily_forecast[1]]
    /\ last_op' = "async_forecast_twice_daily"
    /\ bus' = <<>>
    /\ written' = 0
    /\ delivered' = <<>>
    /\ UNCHANGED <<self, coordinator, last_state, pc, clock>>

\* ---------------------------------------------------------- specifications
Times == 0..MaxTime
Intervals == 1..MaxInterval

\* the entity over few stored states and every fetch
SmallSnapshots ==
    {NoSnapshot}
    \cup SnapshotsOver({STATE_UNAVAILABLE}, {{}}, {{}}, {0}, {})
    \cup SnapshotsOver({"sunny", "fog"}, {AllKeys}, {{}}, {0},
                       {0, 1, MinForecastLength})

Init ==
    InitOver(SmallSnapshots, {0, MaxTime}, Intervals, InitialFetches,
             {NativeUnit})

Next ==
    \/ AddedToHass
    \/ \E f \in Fetches : FirstRefresh(f)
    \/ FirstRefreshFails
    \/ \E f \in Fetches : CoordinatorRefresh(f)
    \/ CoordinatorNotify
    \/ ForecastQuery

Spec == Init /\ [][Next]_vars

\* the restore over every shape of stored state, every clock and interval
RichKeySets ==
    {c \cup u \cup p \cup e :
        c \in SUBSET ConvertedKeys, u \in {{}, UnitKeys},
        p \in {{}, PlainKeys},
        e \in {{}, ExtraKeys, {"feels_like", "temp_water"}}}

RichSnapshots ==
    {NoSnapshot}
    \cup SnapshotsOver({STATE_UNAVAILABLE}, {AllKeys}, {{}}, Times, {1})
    \cup SnapshotsOver({"sunny", "fog"}, RichKeySets,
                       {{}, {"temperature", "wind_gust"}}, Times,
                       0..MaxForecast)

InitRestore ==
    InitOver(RichSnapshots, Times, Intervals,
             {[data |-> MkData(Some("rainy"), 1, FALSE), forecast |-> <<>>]},
             {NativeUnit, OtherUnit})

NextRestore ==
    \/ AddedToHass
    \/ \E f \in InitialFetches : FirstRefresh(f)
    \/ FirstRefreshFails

SpecRestore == InitRestore /\ [][NextRestore]_vars

\* ================================================================ claims
\* the handlers that ran _handle_coordinator_update
UpdateOps == {"first_refresh", "refresh", "notify"}

\* the list the entity's _twice_daily_forecast is bound to
StoredForecastList == heap[self.twice_daily_forecast[1]]

\* C1: whenever the twice-daily forecast is produced, by the query or inside
\* _handle_coordinator_update, the list has at least three elements.
C1_AtLeastThree ==
    /\ last_op = "async_forecast_twice_daily" => Len(returned) >= 3
    /\ last_op \in UpdateOps =>
           Len(heap[self.attr_extra_state_attributes.forecast[1]]) >= 3

\* C2: a coordinator update fires exactly one event, typed with the new
\* condition, if and only if the new condition differs from the condition the
\* entity held before the call and is one of TRIGGERS; otherwise it fires none.
C2_EventIffTrackedChange ==
    [][last_op' \in UpdateOps =>
          LET new_condition == Get(coordinator'.data, "condition")
          IN  /\ self'.attr_condition = new_condition
              /\ IF /\ new_condition # self.attr_condition
                    /\ new_condition \in {Some(t) : t \in TRIGGERS}
                 THEN /\ Len(bus') = 1
                      /\ bus'[1].type = new_condition
                 ELSE bus' = <<>>]_vars

\* C2 witnesses: an update fired an event after a restore gave the entity a
\* different condition
C2_Witness ==
    /\ last_op = "refresh"
    /\ Len(bus) = 1
    /\ bus[1].type = Some("rainy")

\* C4: after every _handle_coordinator_update the entity's condition,
\* humidity, native pressure, native temperature, native wind speed and wind
\* bearing equal the fields of the coordinator's data (None when absent) and
\* the entity is available.
C4_MirrorsCoordinator ==
    last_op \in UpdateOps =>
        /\ self.attr_available = TRUE
        /\ self.attr_condition = Get(coordinator.data, "condition")
        /\ self.attr_humidity = Get(coordinator.data, "humidity")
        /\ self.attr_native_pressure = Get(coordinator.data, "pressure")
        /\ self.attr_native_temperature = Get(coordinator.data, "temperature")
        /\ self.attr_native_wind_speed = Get(coordinator.data, "wind_speed")
        /\ self.attr_wind_bearing = Get(coordinator.data, "wind_bearing")

\* C4 witness: an update with some fields present and some absent
C4_Witness ==
    /\ last_op = "refresh"
    /\ self.attr_humidity = Some(80)
    /\ self.attr_native_pressure = None
    /\ self.attr_condition = Some("fog")

\* C6: when an update delivers fewer than three entries, the synthesized
\* entry is at index 0, ahead of the delivered entries in their order, and
\* carries the condition, temperature, pressure, wind speed and wind bearing
\* of that same update.
C6_SynthesizedFirstAndCurrent ==
    (last_op \in UpdateOps /\ Len(delivered) < 3) =>
        /\ Len(StoredForecastList) = Len(delivered) + 1
        /\ Tail(StoredForecastList) = delivered
        /\ LET e == Head(StoredForecastList)
               d == coordinator.data
           IN  /\ e.condition = Get(d, "condition")
               /\ e.native_temperature = Get(d, "temperature")
               /\ e.native_pressure = Get(d, "pressure")
               /\ e.native_wind_speed = Get(d, "wind_speed")
               /\ e.wind_bearing = Get(d, "wind_bearing")

\* C6 witness: two entries were delivered to an entity that held other values
C6_Witness ==
    /\ last_op = "refresh"
    /\ Len(delivered) = 2
    /\ Len(StoredForecastList) = 3
    /\ Head(StoredForecastList).native_temperature = Some(20)

\* C8: the forecast query is read-only: it leaves the stored list and the
\* coordinator's data unchanged, and two consecutive queries return the same.
C8_QueryReadOnly ==
    [][last_op' = "async_forecast_twice_daily" =>
          /\ heap' = heap
          /\ coordinator' = coordinator
          /\ (last_op = "async_forecast_twice_daily" => returned' = returned)
      ]_vars

\* C9: handling the same coordinator data twice in a row leaves the entity and
\* the coordinator's forecast data as after the first handling and fires no
\* event the second time.
C9_UpdateIdempotent ==
    [][(last_op \in UpdateOps /\ last_op' = "notify") =>
          /\ self' = self
          /\ heap' = heap
          /\ bus' = <<>>]_vars

\* the step in which async_added_to_hass runs up to its refresh decision
AddedStep == pc = "constructed" /\ pc' # "constructed"

\* that step found a stored state that is not unavailable
RestoringStep ==
    /\ AddedStep
    /\ last_state # None
    /\ last_state[1].state # STATE_UNAVAILABLE

\* the forecast list of the stored state, before the restore touched it
SnapshotForecast ==
    IF ATTR_FORECAST_DATA \in DOMAIN last_state[1].attributes
    THEN heap["state"]
    ELSE <<>>

NativeAttr(s, attribute) ==
    CASE attribute = "temperature" -> s.attr_native_temperature
      [] attribute = "pressure" -> s.attr_native_pressure
      [] attribute = "wind_speed" -> s.attr_native_wind_speed

RefreshCalls(c) == c.first_refresh_calls + Len(c.schedule_refresh_calls)

\* C3: every completed async_added_to_hass performs exactly one of an
\* immediate refresh and a delayed schedule_refresh: the refresh when there is
\* no stored state, when it is unavailable or when the elapsed time strictly
\* exceeds the update interval; otherwise a refresh is scheduled with offset
\* interval minus elapsed.
C3_ExactlyOneRefreshOrSchedule ==
    /\ [](pc = "added" => RefreshCalls(coordinator) = 1)
    /\ [][AddedStep =>
             LET elapsed == clock - last_state[1].last_updated
                 immediate ==
                     \/ last_state = None
                     \/ last_state[1].state = STATE_UNAVAILABLE
                     \/ elapsed > coordinator.update_interval
             IN  IF immediate
                 THEN /\ coordinator'.first_refresh_calls = 1
                      /\ coordinator'.schedule_refresh_calls = <<>>
                 ELSE /\ coordinator'.first_refresh_calls = 0
                      /\ coordinator'.schedule_refresh_calls =
                             <<coordinator.update_interval - elapsed>>
                      /\ pc' = "added"]_vars

\* C3 witness: the elapsed time equals the interval and a refresh is scheduled
\* at once
C3_Witness ==
    /\ pc = "added"
    /\ last_op = "async_added_to_hass"
    /\ coordinator.schedule_refresh_calls = <<0>>
    /\ coordinator.first_refresh_calls = 0

\* C5: a stored state that is not unavailable makes the entity available with
\* its condition, humidity, wind bearing, entity picture and forecast list
\* taken from the stored state and its extra attributes exactly the stored
\* non-None ones of the five; a missing or unavailable stored state restores
\* none of these and the condition stays None until the first update.
C5_RestoreFromSnapshot ==
    /\ [][AddedStep =>
             IF RestoringStep
             THEN LET at == last_state[1].attributes
                      restored == heap'[self'.twice_daily_forecast[1]]
                  IN  /\ self'.attr_available = TRUE
                      /\ self'.attr_condition = Some(last_state[1].state)
                      /\ self'.attr_humidity = Get(at, "humidity")
                      /\ self'.attr_wind_bearing = Get(at, "wind_bearing")
                      /\ self'.attr_entity_picture = Get(at, "entity_picture")
                      /\ Len(restored) = Len(SnapshotForecast)
                      /\ \A i \in 1..Len(restored) :
                             restored[i].datetime = SnapshotForecast[i].datetime
                      /\ DOMAIN self'.attr_extra_state_attributes =
                             {k \in ExtraKeys : Get(at, k) # None}
                      /\ \A k \in DOMAIN self'.attr_extra_state_attributes :
                             self'.attr_extra_state_attributes[k] = at[k]
             ELSE /\ self'.attr_condition = None
                  /\ self'.attr_humidity = None
                  /\ self'.attr_wind_bearing = None
                  /\ self'.attr_entity_picture = None
                  /\ self'.twice_daily_forecast = None
                  /\ self'.attr_extra_state_attributes = EmptyDict]_vars
    /\ [](pc \in {"first_refresh", "first_refresh_return"}
           /\ (last_state = None \/ last_state[1].state = STATE_UNAVAILABLE)
           => self.attr_condition = None)

\* C5 witness: restored from a state whose wind_gust is None
C5_Witness ==
    /\ last_op = "async_added_to_hass"
    /\ self.attr_condition = Some("fog")
    /\ self.attr_humidity = Some(60)
    /\ DOMAIN self.attr_extra_state_attributes = ExtraKeys \ {"wind_gust"}
    /\ Len(StoredForecastList) = 2

\* C7: during restore a TypeError raised while converting one field leaves
\* only that field at its previous value: the other fields are restored, the
\* refresh-or-schedule decision is taken and the state is written.
C7_TypeErrorSkipsOnlyThatField ==
    /\ [][RestoringStep =>
             LET at == last_state[1].attributes
                 restored == heap'[self'.twice_daily_forecast[1]]
             IN  /\ \A a \in ConvertedKeys :
                        IF Get(at, a) = None
                        THEN NativeAttr(self', a) = NativeAttr(self, a)
                        ELSE NativeAttr(self', a) =
                                 IF UnitKeys \subseteq DOMAIN at
                                 THEN Some(ToNative(a, at[a][1]))
                                 ELSE at[a]
                 /\ self'.attr_condition = Some(last_state[1].state)
                 /\ self'.attr_humidity = Get(at, "humidity")
                 /\ self'.attr_wind_bearing = Get(at, "wind_bearing")
                 /\ self'.attr_entity_picture = Get(at, "entity_picture")
                 /\ DOMAIN self'.attr_extra_state_attributes =
                        {k \in ExtraKeys : Get(at, k) # None}
                 /\ Len(restored) = Len(SnapshotForecast)
                 /\ \A i \in 1..Len(restored) :
                        /\ DOMAIN restored[i] = DOMAIN SnapshotForecast[i]
                        /\ restored[i].datetime = SnapshotForecast[i].datetime
                        /\ \A a \in ConvertedKeys \cup {"precipitation"} :
                               IF Get(SnapshotForecast[i], a) = None
                               THEN Get(restored[i], a) = None
                               ELSE Get(restored[i], a) =
                                        IF self.display_unit = NativeUnit
                                        THEN SnapshotForecast[i][a]
                                        ELSE Some(ToNative(a,
                                                 SnapshotForecast[i][a][1]))
                 /\ RefreshCalls(coordinator') = 1
                 /\ (pc' = "added" => written' = 1)]_vars
    /\ [][(pc = "first_refresh" /\ pc' = "added") => written' = 2]_vars

\* C7 witness: the temperature raised, the pressure was converted from mmHg
\* and a forecast entry without a temperature kept its other fields
C7_Witness ==
    /\ last_op = "async_added_to_hass"
    /\ pc = "added"
    /\ self.attr_native_temperature = None
    /\ self.attr_native_pressure = Some(1000)
    /\ self.attr_humidity = Some(60)
    /\ Len(StoredForecastList) >= 1
    /\ "temperature" \notin DOMAIN StoredForecastList[1]
    /\ StoredForecastList[1].wind_speed = Some(5)

\* C10 as claimed: every offset passed to schedule_refresh lies between 0 and
\* the update interval, also for a last-updated timestamp after the clock.
C10_OffsetWithinInterval ==
    \A i \in 1..Len(coordinator.schedule_refresh_calls) :
        coordinator.schedule_refresh_calls[i] \in 0..coordinator.update_interval

\* C10 amended: the offset is never negative; it is at most the update
\* interval when the last-updated timestamp is not after the clock, and
\* exceeds it by the distance to that timestamp when it is.
C10_OffsetNonNegative ==
    [][(AddedStep /\ Len(coordinator'.schedule_refresh_calls) = 1) =>
          LET offset == coordinator'.schedule_refresh_calls[1]
              last_updated == last_state[1].last_updated
          IN  /\ offset >= 0
              /\ last_updated <= clock => offset <= coordinator.update_interval
              /\ last_updated > clock =>
                     offset = coordinator.update_interval
                                  + (last_updated - clock)]_vars

\* C10 witness: a refresh scheduled further away than the update interval
C10_Witness ==
    /\ pc = "added"
    /\ Len(coordinator.schedule_refresh_calls) = 1
    /\ coordinator.schedule_refresh_calls[1] > coordinator.update_interval

====
